---- MODULE Spec2Model ----
(***************************************************************************)
(* Session store of ikesy/valkeystore: the gorilla/sessions store that     *)
(* keeps session payloads in a Valkey backend and the session id in a      *)
(* signed cookie.  The repository holds two implementations of the store:  *)
(*   src/valkeystore.go       pluggable serializer, SetMaxLength,          *)
(*                            DefaultMaxAge, Delete                        *)
(*   src/unnamed/part_000     gob only, fixed maxLength, no Delete         *)
(* Definitions whose name starts with Lite model src/unnamed/part_000, the *)
(* others model src/valkeystore.go.  The variable impl says which of the   *)
(* two stores was constructed.                                             *)
(*                                                                         *)
(* The store is shared by the requests that run at the same time, one per  *)
(* slot.  An operation that sends a command to the backend takes two       *)
(* steps: the first runs up to the answer of the command (stage "sent"),   *)
(* the second, named ...Return, runs from there to the return (stage       *)
(* "done").  Steps of other requests, setters and the clock come between.  *)
(* A call also waits wherever the code prints with fmt.Printf (stage       *)
(* "printf"): SetMaxAge at every codec it cannot adjust, from where it     *)
(* goes on in the step SetMaxAgeResume, which counts as an operation of    *)
(* the behaviour; Save and New where JSONSerializer prints the error it    *)
(* returns, from where Save returns in SaveReturn and New in NewResume.    *)
(***************************************************************************)
EXTENDS Integers, Sequences, FiniteSets, Bags, TLC

VARIABLES
    impl,       \* "valkeystore" (src/valkeystore.go) or "lite" (src/unnamed/part_000);
                \* "none" when the constructor returned an error
    store,      \* the ValkeyStore struct
    kv,         \* the backend: live key -> [b, exp, vals]
    sessions,   \* the *sessions.Session objects the callers hold, by slot
    jar,        \* the cookie values the client holds, the newest first
    now,        \* the clock, in seconds
    steps,      \* the number of operations started so far
    last,       \* what the operation of the last step did: its stage, its result, its backend commands,
                \* the cookies it wrote, and what it was called with
    removed,    \* history: the backend keys whose payload a DEL of the store
                \* removed and that no SETEX has written since
    calls,      \* by slot: the operation of that request that has its answer
                \* from the backend and has not returned yet
    setting     \* the bag of the SetMaxAge calls that wait in fmt.Printf

vars == <<impl, store, kv, sessions, jar, now, steps, last, removed, calls, setting>>

-----------------------------------------------------------------------------
(* Program constants *)

\* var sessionExpire = 86400 * 30
sessionExpire == 2592000
\* DefaultMaxAge: 60 * 20
DefaultMaxAge == 1200
\* maxLength: 4096
maxLength == 4096
\* const maxLength = 4096 of part_000
LiteMaxLength == 4096

(* Bounds of the model *)

\* the clock runs from 0 to MaxTime
MaxTime == 2
\* the client keeps at most MaxJar issued cookie values for replay
MaxJar == 2
\* a behaviour performs at most MaxSteps operations
MaxSteps == 5

-----------------------------------------------------------------------------
(* Go values.  A value is [t |-> its dynamic type, n |-> ...]: for a string *)
(* n is its length in bytes (the string is n times "x"), for a number n is  *)
(* the number.                                                              *)

KFoo == [t |-> "string", n |-> 3]
KInt == [t |-> "int", n |-> 7]
VOne == [t |-> "int", n |-> 1]
VBig == [t |-> "string", n |-> 5000]
VFloatOne == [t |-> "float64", n |-> 1]

\* what a caller stores in session.Values
ValueInputs == {<<KFoo, VOne>>, <<KInt, VBig>>}

EmptyValues == [k \in {} |-> VOne]

\* ids drawn by securecookie.GenerateRandomKey (base32, unpadded)
IDs == {"A", "B"}
\* arguments of SetKeyPrefix
Prefixes == {"p_"}
\* every key prefix a store can have: the two defaults and the arguments
AllPrefixes == Prefixes \cup {"session_", "session-"}
\* arguments of SetMaxAge
StoreAges == {-1, 0, 1}
\* values a caller assigns to session.Options.MaxAge
SessionAges == {-1, 2}
\* arguments of SetMaxLength
Lengths == {-1, 0, 5}
\* the session variables of the callers
Slots == {1, 2}
Name == "sid"
\* what the backend answers to the PING of a constructor: PONG, another
\* string, or an error
PingReplies == {"PONG", "other", "error"}

NoSession == [none |-> TRUE]
NoCall == [none |-> TRUE]
NoCookie == [none |-> TRUE]
\* a cookie value that no key-pair authenticates (tampered, or empty)
Garbage == [garbage |-> TRUE]
EmptyValue == [empty |-> TRUE]

-----------------------------------------------------------------------------
(* Serializers *)

RECURSIVE SumOver(_, _)
SumOver(f, S) ==
    IF S = {} THEN 0
    ELSE LET x == CHOOSE y \in S : TRUE IN f[x] + SumOver(f, S \ {x})

\* bytes of a gob unsigned integer
GobUint(n) == IF n < 128 THEN 1 ELSE IF n < 256 THEN 2 ELSE IF n < 65536 THEN 3 ELSE 4

\* bytes of one interface value in a gob stream: type name, type id, byte
\* count, a zero byte and the value
GobItem(x) ==
    LET nameLen == IF x.t = "string" THEN 7 ELSE IF x.t = "int" THEN 4 ELSE 8
        body == IF x.t = "string" THEN 1 + GobUint(x.n) + x.n
                ELSE IF x.t = "int" THEN 1 + GobUint(2 * x.n)
                ELSE 4
    IN nameLen + 1 + GobUint(body) + body

\* len(buf.Bytes()) after enc.Encode(session.Values): the map type's
\* descriptor (15 bytes), then the value message
GobLen(values) ==
    LET items == [k \in DOMAIN values |-> GobItem(k) + GobItem(values[k])]
        msg == 3 + GobUint(Cardinality(DOMAIN values)) + SumOver(items, DOMAIN values)
    IN 15 + GobUint(msg) + msg

GobSerialize(values) ==
    [err |-> "nil", b |-> [fmt |-> "gob", m |-> values, len |-> GobLen(values)]]

\* what json.Marshal writes for a value
JsonOf(v) == IF v.t = "string" THEN [t |-> "string", n |-> v.n] ELSE [t |-> "number", n |-> v.n]

\* bytes of a JSON value: a quoted string, or the digits of a small number
JsonItemLen(j) == IF j.t = "string" THEN j.n + 2 ELSE IF j.n < 10 THEN 1 ELSE 2

JsonLen(m) ==
    LET items == [k \in DOMAIN m |-> k.n + 2 + 1 + JsonItemLen(m[k])]
        n == Cardinality(DOMAIN m)
    IN 2 + SumOver(items, DOMAIN m) + (IF n > 0 THEN n - 1 ELSE 0)

\* a JSON serializer that writes any key as if it were a string
JSONSerialize_AnyKey(values) ==
    LET m == [k \in DOMAIN values |-> JsonOf(values[k])]
    IN [err |-> "nil", b |-> [fmt |-> "json", m |-> m, len |-> JsonLen(m)]]

JSONSerialize(values) ==
    IF \E k \in DOMAIN values : k.t # "string"
    THEN [err |-> "serialize", b |-> [fmt |-> "none", m |-> EmptyValues, len |-> 0]]
    ELSE LET m == [k \in DOMAIN values |-> JsonOf(values[k])]
         IN [err |-> "nil", b |-> [fmt |-> "json", m |-> m, len |-> JsonLen(m)]]

Serialize(ser, values) ==
    IF ser = "json" THEN JSONSerialize(values) ELSE GobSerialize(values)

\* what json.Unmarshal into map[string]interface{} yields for a JSON value
JsonBack(j) == IF j.t = "string" THEN [t |-> "string", n |-> j.n] ELSE [t |-> "float64", n |-> j.n]

Merge(old, new) ==
    [k \in DOMAIN old \cup DOMAIN new |-> IF k \in DOMAIN new THEN new[k] ELSE old[k]]

JSONDeserialize(b, values) ==
    IF b.fmt # "json" THEN [err |-> "deserialize", values |-> values]
    ELSE [err |-> "nil", values |-> Merge(values, [k \in DOMAIN b.m |-> JsonBack(b.m[k])])]

GobDeserialize(b, values) ==
    IF b.fmt # "gob" THEN [err |-> "deserialize", values |-> values]
    ELSE [err |-> "nil", values |-> Merge(values, b.m)]

Deserialize(ser, b, values) ==
    IF ser = "json" THEN JSONDeserialize(b, values) ELSE GobDeserialize(b, values)

-----------------------------------------------------------------------------
(* Identifier codec: securecookie, as the store uses it.  A cookie value is *)
(* [id, key, ts]: the session id, authenticated under a key-pair at time ts. *)

\* securecookie.New(hashKey, blockKey): maxAge is 86400 * 30
SecureCookie(key) == [key |-> key, maxAge |-> 86400 * 30, adjustable |-> TRUE]
\* a securecookie.Codec of the caller's own, which is no *SecureCookie and
\* checks no freshness
CustomCodec(key) == [key |-> key, maxAge |-> 0, adjustable |-> FALSE]

\* the Codecs a store is built with
CodecLists ==
    { <<>>,
      <<SecureCookie("K1")>>,
      <<CustomCodec("KC"), SecureCookie("K1")>> }

IsToken(c) == "id" \in DOMAIN c

\* Codec.Decode: the MAC verifies under the codec's key and the timestamp is
\* not older than maxAge (0: no limit)
Decodes(codec, c, t) ==
    /\ IsToken(c)
    /\ c.key = codec.key
    /\ ~(codec.maxAge # 0 /\ c.ts < t - codec.maxAge)

\* a DecodeMulti that has written the id it read when it finds the cookie stale
DecodeMulti_WritesId(codecs, c, t) ==
    IF \E i \in DOMAIN codecs : Decodes(codecs[i], c, t)
    THEN [err |-> "nil", id |-> c.id]
    ELSE [err |-> "decode", id |-> IF IsToken(c) THEN c.id ELSE ""]

\* a DecodeMulti that tries the first codec only
DecodeMulti_FirstOnly(codecs, c, t) ==
    IF Len(codecs) > 0 /\ Decodes(codecs[1], c, t)
    THEN [err |-> "nil", id |-> c.id]
    ELSE [err |-> "decode", id |-> ""]

\* securecookie.DecodeMulti(name, c.Value, &session.ID, r.Codecs...)
DecodeMulti(codecs, c, t) ==
    IF \E i \in DOMAIN codecs : Decodes(codecs[i], c, t)
    THEN [err |-> "nil", id |-> c.id]
    ELSE [err |-> "decode", id |-> ""]

\* securecookie.EncodeMulti(session.Name(), session.ID, r.Codecs...): the
\* first codec encodes; without codecs it fails
EncodeMulti(codecs, id, t) ==
    IF Len(codecs) = 0
    THEN [err |-> "encode", value |-> EmptyValue]
    ELSE [err |-> "nil", value |-> [id |-> id, key |-> codecs[1].key, ts |-> t]]

\* sessions.NewCookie(name, value, options)
NewCookie(name, value, options) ==
    [name |-> name, value |-> value, path |-> options.path, maxAge |-> options.maxAge,
     expires |-> IF options.maxAge > 0 THEN "now+maxAge"
                 ELSE IF options.maxAge < 0 THEN "epoch" ELSE "unset"]

\* JSONSerializer prints the error it returns with fmt.Printf, and the call
\* waits until that has written; GobSerializer prints nothing
Printing(ser, err) == ser = "json" /\ err \in {"serialize", "deserialize"}

-----------------------------------------------------------------------------
(* Backend: the three Valkey commands *)

Put(f, k, e) == [x \in DOMAIN f \cup {k} |-> IF x = k THEN e ELSE f[x]]
Drop(f, k) == [x \in DOMAIN f \ {k} |-> f[x]]

\* SETEX key seconds value: the server refuses seconds <= 0
Setex(key, seconds, b, vals, up) ==
    LET cmd == [cmd |-> "SETEX", key |-> key, ttl |-> seconds]
    IN IF ~up THEN [err |-> "backend", cmds |-> <<cmd>>, kv |-> kv]
       ELSE IF seconds <= 0 THEN [err |-> "expire", cmds |-> <<cmd>>, kv |-> kv]
       ELSE [err |-> "nil", cmds |-> <<cmd>>,
             kv |-> Put(kv, key, [b |-> b, exp |-> now + seconds, vals |-> vals])]

\* DEL key: removing a key that is not there is no error
Del(key, up) ==
    LET cmd == [cmd |-> "DEL", key |-> key, ttl |-> 0]
    IN IF ~up THEN [err |-> "backend", cmds |-> <<cmd>>, kv |-> kv]
       ELSE [err |-> "nil", cmds |-> <<cmd>>, kv |-> Drop(kv, key)]

NoEntry == [none |-> TRUE]

\* GET key: the payload, nil when the key is not there, or an error
Get(key, up) ==
    IF ~up THEN [reply |-> "error", b |-> NoEntry]
    ELSE IF key \notin DOMAIN kv THEN [reply |-> "nil", b |-> NoEntry]
    ELSE [reply |-> "data", b |-> kv[key].b]

\* the history after a DEL or a SETEX of the store got the answer err: a DEL
\* that took a payload away adds its key, a SETEX that was stored clears it
Removal(cmds, err) ==
    IF err # "nil" \/ cmds = <<>> THEN removed
    ELSE IF cmds[1].cmd = "DEL"
    THEN (IF cmds[1].key \in DOMAIN kv THEN removed \cup {cmds[1].key} ELSE removed)
    ELSE removed \ {cmds[1].key}

-----------------------------------------------------------------------------
(* The observation of an operation *)

Budget == steps < MaxSteps /\ steps' = steps + 1

Obs(op, s) ==
    [op |-> op, slot |-> s, stage |-> "done", arg |-> 0, err |-> "nil", cmds |-> <<>>,
     resp |-> <<>>, req |-> NoCookie, pre |-> NoSession, decoded |-> FALSE,
     reply |-> "none", held |-> NoEntry, got |-> NoEntry, gone |-> FALSE,
     kvSame |-> TRUE, alone |-> TRUE, printed |-> FALSE]

\* the client keeps the newest MaxJar cookie values it was sent
Keep(c) ==
    LET all == <<c>> \o SelectSeq(jar, LAMBDA x : x # c)
    IN SubSeq(all, 1, IF Len(all) < MaxJar THEN Len(all) ELSE MaxJar)

\* every cookie value a request can carry
Cookies ==
    {NoCookie, Garbage} \cup [id : IDs, key : {"K1", "KC", "K2"}, ts : 0..MaxTime]

\* the cookie values a request of the client carries: none, one that does
\* not authenticate, or one the store issued
Requests == {NoCookie, Garbage} \cup {jar[i] : i \in DOMAIN jar}

NewSession(options) ==
    [name |-> Name, id |-> "", isNew |-> TRUE, values |-> EmptyValues, options |-> options]

-----------------------------------------------------------------------------
(* src/valkeystore.go *)

\* NewValkeyStoreWithClient: the store after construction
NewValkeyStoreWithClient(codecs) ==
    [codecs |-> codecs,
     options |-> [path |-> "/", maxAge |-> sessionExpire],
     defaultMaxAge |-> DefaultMaxAge,
     maxLength |-> maxLength,
     keyPrefix |-> "session_",
     serializer |-> "gob"]

\* ping does an internal ping against a valkey server: (data == "PONG", nil),
\* or (false, err) when the command fails
ping(reply) ==
    IF reply = "error" THEN [ok |-> FALSE, err |-> "backend"]
    ELSE [ok |-> reply = "PONG", err |-> "nil"]

\* _, err := store.ping(); return store, err
NewValkeyStoreWithClientErr(reply) == ping(reply).err

\* load that returns found without handing the payload to the serializer
load_NotDeserialized(session, resp) ==
    IF resp.reply = "error"
    THEN [ok |-> FALSE, err |-> "backend", values |-> session.values, reply |-> "error"]
    ELSE IF resp.reply = "nil"
    THEN [ok |-> FALSE, err |-> "nil", values |-> session.values, reply |-> "nil"]
    ELSE [ok |-> TRUE, err |-> "nil", values |-> session.values, reply |-> "data"]

\* load that takes the backend's nil reply for a failure
load_NilIsError(session, resp) ==
    IF resp.reply = "error"
    THEN [ok |-> FALSE, err |-> "backend", values |-> session.values, reply |-> "error"]
    ELSE IF resp.reply = "nil"
    THEN [ok |-> FALSE, err |-> "backend", values |-> session.values, reply |-> "nil"]
    ELSE LET d == Deserialize(store.serializer, resp.b, session.values)
         IN [ok |-> TRUE, err |-> d.err, values |-> d.values, reply |-> "data"]

\* load reads the session from valkey: what it makes of the answer resp of
\* its GET, [ok, err, values]
load(session, resp) ==
    IF resp.reply = "error"
    THEN [ok |-> FALSE, err |-> "backend", values |-> session.values, reply |-> "error"]
    ELSE IF resp.reply = "nil"
    THEN [ok |-> FALSE, err |-> "nil", values |-> session.values, reply |-> "nil"]
    ELSE LET d == Deserialize(store.serializer, resp.b, session.values)
         IN [ok |-> TRUE, err |-> d.err, values |-> d.values, reply |-> "data"]

\* save that leaves the session id out of the key
save_BarePrefix(session, up) ==
    LET s == Serialize(store.serializer, session.values)
        age == IF session.options.maxAge = 0 THEN store.defaultMaxAge
               ELSE session.options.maxAge
    IN IF s.err # "nil" THEN [err |-> s.err, cmds |-> <<>>, kv |-> kv]
       ELSE IF store.maxLength # 0 /\ s.b.len > store.maxLength
       THEN [err |-> "toobig", cmds |-> <<>>, kv |-> kv]
       ELSE Setex(store.keyPrefix, age, s.b, session.values, up)

\* save that does not check the length of the payload
save_NoLimit(session, up) ==
    LET s == Serialize(store.serializer, session.values)
        age == IF session.options.maxAge = 0 THEN store.defaultMaxAge
               ELSE session.options.maxAge
    IN IF s.err # "nil" THEN [err |-> s.err, cmds |-> <<>>, kv |-> kv]
       ELSE Setex(store.keyPrefix \o session.id, age, s.b, session.values, up)

\* save stores the session in valkey
save(session, up) ==
    LET s == Serialize(store.serializer, session.values)
        age == IF session.options.maxAge = 0 THEN store.defaultMaxAge
               ELSE session.options.maxAge
    IN IF s.err # "nil" THEN [err |-> s.err, cmds |-> <<>>, kv |-> kv]
       ELSE IF store.maxLength # 0 /\ s.b.len > store.maxLength
       THEN [err |-> "toobig", cmds |-> <<>>, kv |-> kv]
       ELSE Setex(store.keyPrefix \o session.id, age, s.b, session.values, up)

\* delete removes the key from valkey
delete(session, up) == Del(store.keyPrefix \o session.id, up)

\* the held entry a load of id would find
Held(id) ==
    LET key == store.keyPrefix \o id
    IN IF key \in DOMAIN kv THEN [vals |-> kv[key].vals, fmt |-> kv[key].b.fmt] ELSE NoEntry

\* the id is that of a session, of a cookie the client holds or of a key
InUse(id) ==
    \/ \E s \in Slots : sessions[s] # NoSession /\ sessions[s].id = id
    \/ \E s \in Slots : calls[s] # NoCall /\ calls[s].pre # NoSession /\ calls[s].pre.id = id
    \/ \E j \in DOMAIN jar : jar[j].id = id
    \/ \E p \in AllPrefixes : (p \o id) \in DOMAIN kv \cup removed

\* strings.TrimRight(base32.StdEncoding.EncodeToString(
\* securecookie.GenerateRandomKey(32)), "="): an id that is not in use.  Ids
\* are told apart only by being equal or not, so the id generated is always
\* the same one of those not in use
GenerateRandomKey(id) ==
    /\ ~InUse(id)
    /\ id = CHOOSE i \in IDs : ~InUse(i)

\* isNew that looks at the found flag alone
IsNewAfter_IgnoresErr(ok, err) == ~ok

\* session.IsNew = !(err == nil && ok)
IsNewAfter(ok, err) == ~(err = "nil" /\ ok)

\* the request that calls New keeps the session in slot s: one that runs
\* already, or the first slot no request uses (the slots are interchangeable)
SlotOf(s) ==
    \/ sessions[s] # NoSession
    \/ \A t \in Slots : t < s => (sessions[t] # NoSession \/ calls[t] # NoCall)

\* New returns a session for the given name without adding it to the registry:
\* up to the answer of load's GET
New(s, c, up) ==
    /\ impl = "valkeystore"
    /\ Budget
    /\ calls[s] = NoCall
    /\ SlotOf(s)
    /\ c \in Requests
    /\ LET fresh == NewSession(store.options)
           dec == DecodeMulti(store.codecs, c, now)
           withId == [fresh EXCEPT !.id = dec.id]
           g == Get(store.keyPrefix \o dec.id, up)
           obs == [Obs("New", s) EXCEPT !.req = c,
                     !.gone = (IsToken(c) /\ (store.keyPrefix \o c.id) \in removed)]
           sent == [obs EXCEPT !.stage = "sent", !.decoded = TRUE, !.pre = withId,
                               !.reply = g.reply, !.got = g.b, !.held = Held(dec.id),
                               !.cmds = <<[cmd |-> "GET",
                                           key |-> store.keyPrefix \o dec.id,
                                           ttl |-> 0]>>]
       IN IF c = NoCookie
          THEN /\ sessions' = [sessions EXCEPT ![s] = fresh]
               /\ calls' = calls
               /\ last' = obs
          ELSE IF dec.err # "nil"
          THEN /\ sessions' = [sessions EXCEPT ![s] = withId]
               /\ calls' = calls
               /\ last' = [obs EXCEPT !.err = dec.err]
          ELSE /\ sessions' = sessions
               /\ calls' = [calls EXCEPT ![s] = sent]
               /\ last' = sent
    /\ UNCHANGED <<impl, store, kv, jar, now, removed, setting>>

\* New, from the answer of the GET to the return, or to the fmt.Printf in
\* which JSONSerializer prints that it cannot read the payload: load hands
\* the payload to the serializer the store has now, New sets IsNew
NewReturn(s) ==
    /\ impl = "valkeystore"
    /\ calls[s] # NoCall
    /\ calls[s].op = "New"
    /\ calls[s].stage = "sent"
    /\ LET call == calls[s]
           ld == load(call.pre, [reply |-> call.reply, b |-> call.got])
           waits == [call EXCEPT !.stage = "printf", !.printed = TRUE, !.err = ld.err]
       IN IF Printing(store.serializer, ld.err)
          THEN /\ sessions' = sessions
               /\ calls' = [calls EXCEPT ![s] = waits]
               /\ last' = waits
          ELSE /\ sessions' = [sessions EXCEPT ![s] =
                      [call.pre EXCEPT !.values = ld.values,
                                       !.isNew = IsNewAfter(ld.ok, ld.err)]]
               /\ calls' = [calls EXCEPT ![s] = NoCall]
               /\ last' = [call EXCEPT !.stage = "done", !.err = ld.err,
                                       !.pre = NoSession, !.got = NoEntry]
    /\ UNCHANGED <<impl, store, kv, jar, now, steps, removed, setting>>

\* New, from the return of the serializer's fmt.Printf to the return:
\* Deserialize and load return the error, load with ok = true; the values
\* are untouched, New sets IsNew
NewResume(s) ==
    /\ impl = "valkeystore"
    /\ calls[s] # NoCall
    /\ calls[s].op = "New"
    /\ calls[s].stage = "printf"
    /\ LET call == calls[s]
       IN /\ sessions' = [sessions EXCEPT ![s] =
                 [call.pre EXCEPT !.isNew = IsNewAfter(TRUE, call.err)]]
          /\ last' = [call EXCEPT !.stage = "done", !.pre = NoSession, !.got = NoEntry]
    /\ calls' = [calls EXCEPT ![s] = NoCall]
    /\ UNCHANGED <<impl, store, kv, jar, now, steps, removed, setting>>

\* Save adds a single session to the response: up to the answer of the DEL or
\* the SETEX, or to the fmt.Printf in which JSONSerializer prints its error;
\* a payload that is too long makes it return at once
Save(s, id, up) ==
    /\ impl = "valkeystore"
    /\ Budget
    /\ calls[s] = NoCall
    /\ sessions[s] # NoSession
    /\ (sessions[s].options.maxAge > 0 /\ sessions[s].id = "") => GenerateRandomKey(id)
    /\ LET session == sessions[s]
           obs == [Obs("Save", s) EXCEPT !.pre = session, !.held = Held(session.id),
                                         !.kvSame = (kv' = kv)]
       IN IF session.options.maxAge <= 0
          THEN LET d == delete(session, up)
                   sent == [obs EXCEPT !.stage = "sent", !.err = d.err, !.cmds = d.cmds]
               IN /\ kv' = d.kv
                  /\ removed' = Removal(d.cmds, d.err)
                  /\ sessions' = sessions
                  /\ calls' = [calls EXCEPT ![s] = sent]
                  /\ last' = sent
          ELSE LET withId == IF session.id = "" THEN [session EXCEPT !.id = id] ELSE session
                   sv == save(withId, up)
                   pobs == [obs EXCEPT !.held = Held(withId.id), !.err = sv.err,
                                       !.cmds = sv.cmds]
                   sent == [pobs EXCEPT !.stage = "sent"]
                   waits == [pobs EXCEPT !.stage = "printf", !.printed = TRUE]
               IN /\ kv' = sv.kv
                  /\ removed' = Removal(sv.cmds, sv.err)
                  /\ sessions' = [sessions EXCEPT ![s] = withId]
                  /\ IF Printing(store.serializer, sv.err)
                     THEN /\ calls' = [calls EXCEPT ![s] = waits]
                          /\ last' = waits
                     ELSE IF sv.cmds = <<>>
                     THEN /\ calls' = calls
                          /\ last' = pobs
                     ELSE /\ calls' = [calls EXCEPT ![s] = sent]
                          /\ last' = sent
    /\ UNCHANGED <<impl, store, jar, now, setting>>

\* the return of Save that sets the cookie before it looks at the result of
\* save
Save_CookieFirst(s) ==
    /\ impl = "valkeystore"
    /\ calls[s] # NoCall
    /\ calls[s].op = "Save"
    /\ LET call == calls[s]
           session == sessions[s]
       IN IF call.cmds # <<>> /\ call.cmds[1].cmd = "DEL"
          THEN /\ jar' = jar
               /\ last' = [call EXCEPT !.stage = "done",
                              !.resp = IF call.err # "nil" THEN <<>>
                                       ELSE <<NewCookie(session.name, EmptyValue,
                                                        session.options)>>]
          ELSE LET enc == EncodeMulti(store.codecs, session.id, now)
               IN IF enc.err # "nil"
                  THEN /\ jar' = jar
                       /\ last' = [call EXCEPT !.stage = "done", !.err = enc.err]
                  ELSE /\ jar' = Keep(enc.value)
                       /\ last' = [call EXCEPT !.stage = "done",
                                      !.resp = <<NewCookie(session.name, enc.value,
                                                           session.options)>>]
    /\ calls' = [calls EXCEPT ![s] = NoCall]
    /\ UNCHANGED <<impl, store, kv, sessions, now, steps, removed, setting>>

\* Save, from the answer of the backend, or from the return of the
\* serializer's fmt.Printf, to the return: the error, or the cookie, encoded
\* with the codecs and the clock of now
SaveReturn(s) ==
    /\ impl = "valkeystore"
    /\ calls[s] # NoCall
    /\ calls[s].op = "Save"
    /\ LET call == calls[s]
           session == sessions[s]
       IN IF call.err # "nil"
          THEN /\ jar' = jar
               /\ last' = [call EXCEPT !.stage = "done"]
          ELSE IF call.cmds[1].cmd = "DEL"
          THEN /\ jar' = jar
               /\ last' = [call EXCEPT !.stage = "done",
                              !.resp = <<NewCookie(session.name, EmptyValue,
                                                   session.options)>>]
          ELSE LET enc == EncodeMulti(store.codecs, session.id, now)
               IN IF enc.err # "nil"
                  THEN /\ jar' = jar
                       /\ last' = [call EXCEPT !.stage = "done", !.err = enc.err]
                  ELSE /\ jar' = Keep(enc.value)
                       /\ last' = [call EXCEPT !.stage = "done",
                                      !.resp = <<NewCookie(session.name, enc.value,
                                                           session.options)>>]
    /\ calls' = [calls EXCEPT ![s] = NoCall]
    /\ UNCHANGED <<impl, store, kv, sessions, now, steps, removed, setting>>

\* options of a cookie that is not told to expire
ExpiredOptions_Zero(options) == [options EXCEPT !.maxAge = 0]

\* options := *session.Options; options.MaxAge = -1
ExpiredOptions(options) == [options EXCEPT !.maxAge = -1]

\* Delete that sends nothing the backend acts on: the entry is left to its TTL
Delete_CookieOnly(s, up) ==
    /\ impl = "valkeystore"
    /\ Budget
    /\ calls[s] = NoCall
    /\ sessions[s] # NoSession
    /\ LET session == sessions[s]
           d == Del(store.keyPrefix \o session.id, up)
           sent == [Obs("Delete", s) EXCEPT !.stage = "sent", !.pre = session,
                                            !.err = d.err, !.cmds = d.cmds,
                                            !.held = Held(session.id), !.kvSame = (kv' = kv)]
       IN /\ kv' = kv
          /\ removed' = Removal(d.cmds, d.err)
          /\ calls' = [calls EXCEPT ![s] = sent]
          /\ last' = sent
    /\ UNCHANGED <<impl, store, sessions, jar, now, setting>>

\* Delete removes the session from valkey, and sets the cookie to expire: up
\* to the answer of the DEL
Delete(s, up) ==
    /\ impl = "valkeystore"
    /\ Budget
    /\ calls[s] = NoCall
    /\ sessions[s] # NoSession
    /\ LET session == sessions[s]
           d == Del(store.keyPrefix \o session.id, up)
           sent == [Obs("Delete", s) EXCEPT !.stage = "sent", !.pre = session,
                                            !.err = d.err, !.cmds = d.cmds,
                                            !.held = Held(session.id), !.kvSame = (kv' = kv)]
       IN /\ kv' = d.kv
          /\ removed' = Removal(d.cmds, d.err)
          /\ calls' = [calls EXCEPT ![s] = sent]
          /\ last' = sent
    /\ UNCHANGED <<impl, store, sessions, jar, now, setting>>

\* the return of Delete that clears the values before it looks at the
\* backend's answer
Delete_ClearsFirst(s) ==
    /\ impl = "valkeystore"
    /\ calls[s] # NoCall
    /\ calls[s].op = "Delete"
    /\ LET call == calls[s]
           session == sessions[s]
           options == ExpiredOptions(session.options)
       IN IF call.err # "nil"
          THEN /\ sessions' = [sessions EXCEPT ![s].values = EmptyValues]
               /\ last' = [call EXCEPT !.stage = "done"]
          ELSE /\ sessions' = [sessions EXCEPT ![s].values = EmptyValues]
               /\ last' = [call EXCEPT !.stage = "done",
                              !.resp = <<NewCookie(session.name, EmptyValue, options)>>]
    /\ calls' = [calls EXCEPT ![s] = NoCall]
    /\ UNCHANGED <<impl, store, kv, jar, now, steps, removed, setting>>

\* the return of Delete that sets MaxAge = -1 in the session's own options,
\* not in a copy
Delete_ExpiresInPlace(s) ==
    /\ impl = "valkeystore"
    /\ calls[s] # NoCall
    /\ calls[s].op = "Delete"
    /\ LET call == calls[s]
           session == sessions[s]
           options == ExpiredOptions(session.options)
       IN IF call.err # "nil"
          THEN /\ sessions' = sessions
               /\ last' = [call EXCEPT !.stage = "done"]
          ELSE /\ sessions' = [sessions EXCEPT ![s].values = EmptyValues,
                                                  ![s].options = options]
               /\ last' = [call EXCEPT !.stage = "done",
                              !.resp = <<NewCookie(session.name, EmptyValue, options)>>]
    /\ calls' = [calls EXCEPT ![s] = NoCall]
    /\ UNCHANGED <<impl, store, kv, jar, now, steps, removed, setting>>

\* Delete, from the answer of the DEL to the return: the error, or the
\* expired cookie and the cleared values
DeleteReturn(s) ==
    /\ impl = "valkeystore"
    /\ calls[s] # NoCall
    /\ calls[s].op = "Delete"
    /\ LET call == calls[s]
           session == sessions[s]
           options == ExpiredOptions(session.options)
       IN IF call.err # "nil"
          THEN /\ sessions' = sessions
               /\ last' = [call EXCEPT !.stage = "done"]
          ELSE /\ sessions' = [sessions EXCEPT ![s].values = EmptyValues]
               /\ last' = [call EXCEPT !.stage = "done",
                              !.resp = <<NewCookie(session.name, EmptyValue, options)>>]
    /\ calls' = [calls EXCEPT ![s] = NoCall]
    /\ UNCHANGED <<impl, store, kv, jar, now, steps, removed, setting>>

\* SetMaxLength that takes any argument
SetMaxLength_Unchecked(length) ==
    /\ impl = "valkeystore"
    /\ Budget
    /\ store' = [store EXCEPT !.maxLength = length]
    /\ last' = [Obs("SetMaxLength", 0) EXCEPT !.arg = length]
    /\ UNCHANGED <<impl, kv, sessions, jar, now, removed, calls, setting>>

\* SetMaxLength sets ValkeyStore.maxLength if the length argument is >= 0
SetMaxLength(length) ==
    /\ impl = "valkeystore"
    /\ Budget
    /\ store' = IF length >= 0 THEN [store EXCEPT !.maxLength = length] ELSE store
    /\ last' = [Obs("SetMaxLength", 0) EXCEPT !.arg = length]
    /\ UNCHANGED <<impl, kv, sessions, jar, now, removed, calls, setting>>

\* SetKeyPrefix set the prefix
SetKeyPrefix(prefix) ==
    /\ impl = "valkeystore"
    /\ Budget
    /\ store' = [store EXCEPT !.keyPrefix = prefix]
    /\ last' = Obs("SetKeyPrefix", 0)
    /\ UNCHANGED <<impl, kv, sessions, jar, now, removed, calls, setting>>

\* SetSerializer sets the session serializer
SetSerializer(serializer) ==
    /\ impl = "valkeystore"
    /\ Budget
    /\ store' = [store EXCEPT !.serializer = serializer]
    /\ last' = Obs("SetSerializer", 0)
    /\ UNCHANGED <<impl, kv, sessions, jar, now, removed, calls, setting>>

\* the pass of the loop of SetMaxAge, among the passes from..to over the
\* Codecs as they are now, that blocks in fmt.Printf: the first at a codec
\* that is no *securecookie.SecureCookie; 0 when there is none
Printf(codecs, from, to) ==
    IF \A i \in from..to : codecs[i].adjustable THEN 0
    ELSE CHOOSE i \in from..to :
            /\ ~codecs[i].adjustable
            /\ \A j \in from..(i - 1) : codecs[j].adjustable

\* the passes from..to of the loop of SetMaxAge, up to the first fmt.Printf
\* or to the end: cookie.MaxAge(age) on r.Codecs[i]
AdjustCodecs(codecs, from, to, age) ==
    LET end == IF Printf(codecs, from, to) = 0 THEN to ELSE Printf(codecs, from, to) - 1
    IN [i \in DOMAIN codecs |->
           IF i \in from..end THEN [codecs[i] EXCEPT !.maxAge = age] ELSE codecs[i]]

\* the waiting calls after a step of another SetMaxAge, or an assignment of
\* Codecs, has come between their steps
Overlapped(waiting) ==
    LET marked == {[c EXCEPT !.alone = FALSE] : c \in BagToSet(waiting)}
    IN [d \in marked |-> CopiesIn(d, waiting) + CopiesIn([d EXCEPT !.alone = TRUE], waiting)]

\* SetMaxAge restricts the maximum age, in seconds, of the session record:
\* up to the first fmt.Printf, or to the return when every codec is a
\* *securecookie.SecureCookie
SetMaxAge(age) ==
    /\ impl = "valkeystore"
    /\ Budget
    /\ LET n == Len(store.codecs)
           i == Printf(store.codecs, 1, n)
           obs == [Obs("SetMaxAge", 0) EXCEPT !.arg = age, !.alone = (setting = EmptyBag)]
       IN /\ store' = [store EXCEPT !.options.maxAge = age,
                                    !.codecs = AdjustCodecs(store.codecs, 1, n, age)]
          /\ IF i = 0
             THEN /\ setting' = Overlapped(setting)
                  /\ last' = [obs EXCEPT !.alone = TRUE]
             ELSE /\ setting' = Overlapped(setting) (+)
                                    SetToBag({[age |-> age, i |-> i, n |-> n,
                                               alone |-> obs.alone]})
                  /\ last' = [obs EXCEPT !.stage = "printf"]
    /\ UNCHANGED <<impl, kv, sessions, jar, now, removed, calls>>

\* SetMaxAge with a break behind the fmt.Printf: the call returns from the
\* first codec it cannot adjust
SetMaxAge_Break(age) ==
    /\ impl = "valkeystore"
    /\ Budget
    /\ \E c \in BagToSet(setting) :
          /\ c.age = age
          /\ setting' = Overlapped(setting (-) SetToBag({c}))
          /\ last' = [Obs("SetMaxAge", 0) EXCEPT !.arg = c.age, !.alone = c.alone]
    /\ UNCHANGED <<impl, store, kv, sessions, jar, now, removed, calls>>

\* SetMaxAge(age), from the return of a fmt.Printf to the next one or to the
\* return.  A waiting call c has its argument, the pass c.i of the loop it
\* waits in, the number c.n of passes (len(r.Codecs) when the loop began)
\* and whether it ran alone so far; it goes on with the passes c.i + 1 .. c.n,
\* each on r.Codecs[i] as the field is now (Codecs never gets shorter, so the
\* index is in range)
SetMaxAgeResume(age) ==
    /\ impl = "valkeystore"
    /\ Budget
    /\ \E c \in BagToSet(setting) :
          LET others == Overlapped(setting (-) SetToBag({c}))
              i == Printf(store.codecs, c.i + 1, c.n)
              obs == [Obs("SetMaxAge", 0) EXCEPT !.arg = c.age, !.alone = c.alone]
          IN /\ c.age = age
             /\ store' = [store EXCEPT
                              !.codecs = AdjustCodecs(store.codecs, c.i + 1, c.n, c.age)]
             /\ IF i = 0
                THEN /\ setting' = others
                     /\ last' = obs
                ELSE /\ setting' = others (+) SetToBag({[c EXCEPT !.i = i]})
                     /\ last' = [obs EXCEPT !.stage = "printf"]
    /\ UNCHANGED <<impl, kv, sessions, jar, now, removed, calls>>

-----------------------------------------------------------------------------
(* src/unnamed/part_000 *)

\* NewWithClient: the store after construction
LiteNewWithClient(codecs) ==
    [codecs |-> codecs,
     options |-> [path |-> "/", maxAge |-> sessionExpire],
     keyPrefix |-> "session-"]

\* ping does an internal ping against a valkey server: an error when the
\* command fails or the answer is not PONG
LitePing(reply) ==
    IF reply = "error" THEN "backend" ELSE IF reply # "PONG" THEN "ping" ELSE "nil"

\* return store, store.ping()
LiteNewWithClientErr(reply) == LitePing(reply)

\* load reads the session from valkey: what it makes of the answer resp of
\* its GET, [ok, err, values]
LiteLoad(session, resp) ==
    IF resp.reply = "error"
    THEN [ok |-> FALSE, err |-> "backend", values |-> session.values, reply |-> "error"]
    ELSE IF resp.reply = "nil"
    THEN [ok |-> FALSE, err |-> "nil", values |-> session.values, reply |-> "nil"]
    ELSE LET d == GobDeserialize(resp.b, session.values)
         IN [ok |-> TRUE, err |-> d.err, values |-> d.values, reply |-> "data"]

\* save stores the session in valkey
LiteSaveInner(session, up) ==
    LET s == GobSerialize(session.values)
    IN IF s.b.len > LiteMaxLength
       THEN [err |-> "toobig", cmds |-> <<>>, kv |-> kv]
       ELSE Setex(store.keyPrefix \o session.id, store.options.maxAge, s.b,
                  session.values, up)

\* erase removes keys from valkey
LiteErase(session, up) == Del(store.keyPrefix \o session.id, up)

\* New returns a session for the given name without adding it to the registry:
\* up to the answer of load's GET
LiteNew(s, c, up) ==
    /\ impl = "lite"
    /\ Budget
    /\ calls[s] = NoCall
    /\ SlotOf(s)
    /\ c \in Requests
    /\ LET fresh == NewSession(store.options)
           dec == DecodeMulti(store.codecs, c, now)
           withId == [fresh EXCEPT !.id = dec.id]
           g == Get(store.keyPrefix \o dec.id, up)
           obs == [Obs("New", s) EXCEPT !.req = c,
                     !.gone = (IsToken(c) /\ (store.keyPrefix \o c.id) \in removed)]
           sent == [obs EXCEPT !.stage = "sent", !.decoded = TRUE, !.pre = withId,
                               !.reply = g.reply, !.got = g.b, !.held = Held(dec.id),
                               !.cmds = <<[cmd |-> "GET",
                                           key |-> store.keyPrefix \o dec.id,
                                           ttl |-> 0]>>]
       IN IF c = NoCookie
          THEN /\ sessions' = [sessions EXCEPT ![s] = fresh]
               /\ calls' = calls
               /\ last' = obs
          ELSE IF dec.err # "nil"
          THEN /\ sessions' = [sessions EXCEPT ![s] = withId]
               /\ calls' = calls
               /\ last' = [obs EXCEPT !.err = dec.err]
          ELSE /\ sessions' = sessions
               /\ calls' = [calls EXCEPT ![s] = sent]
               /\ last' = sent
    /\ UNCHANGED <<impl, store, kv, jar, now, removed, setting>>

\* New, from the answer of the GET to the return: load hands the payload to
\* the serializer the store has now, New sets IsNew

\* New, from the answer of the GET to the return: load decodes the payload,
\* New sets IsNew
LiteNewReturn(s) ==
    /\ impl = "lite"
    /\ calls[s] # NoCall
    /\ calls[s].op = "New"
    /\ LET call == calls[s]
           ld == LiteLoad(call.pre, [reply |-> call.reply, b |-> call.got])
       IN /\ sessions' = [sessions EXCEPT ![s] =
                 [call.pre EXCEPT !.values = ld.values,
                                  !.isNew = (ld.err # "nil" \/ ~ld.ok)]]
          /\ last' = [call EXCEPT !.stage = "done", !.err = ld.err,
                                  !.pre = NoSession, !.got = NoEntry]
    /\ calls' = [calls EXCEPT ![s] = NoCall]
    /\ UNCHANGED <<impl, store, kv, jar, now, steps, removed, setting>>

\* Save adds a single session to the response: up to the answer of the DEL or
\* the SETEX
LiteSave(s, id, up) ==
    /\ impl = "lite"
    /\ Budget
    /\ calls[s] = NoCall
    /\ sessions[s] # NoSession
    /\ (sessions[s].options.maxAge > 0 /\ sessions[s].id = "") => GenerateRandomKey(id)
    /\ LET session == sessions[s]
           obs == [Obs("Save", s) EXCEPT !.pre = session, !.held = Held(session.id),
                                         !.kvSame = (kv' = kv)]
       IN IF session.options.maxAge <= 0
          THEN LET d == LiteErase(session, up)
                   sent == [obs EXCEPT !.stage = "sent", !.err = d.err, !.cmds = d.cmds]
               IN /\ kv' = d.kv
                  /\ removed' = Removal(d.cmds, d.err)
                  /\ sessions' = sessions
                  /\ calls' = [calls EXCEPT ![s] = sent]
                  /\ last' = sent
          ELSE LET withId == IF session.id = "" THEN [session EXCEPT !.id = id] ELSE session
                   sv == LiteSaveInner(withId, up)
                   pobs == [obs EXCEPT !.held = Held(withId.id), !.err = sv.err,
                                       !.cmds = sv.cmds]
                   sent == [pobs EXCEPT !.stage = "sent"]
               IN /\ kv' = sv.kv
                  /\ removed' = Removal(sv.cmds, sv.err)
                  /\ sessions' = [sessions EXCEPT ![s] = withId]
                  /\ IF sv.cmds = <<>>
                     THEN /\ calls' = calls
                          /\ last' = pobs
                     ELSE /\ calls' = [calls EXCEPT ![s] = sent]
                          /\ last' = sent
    /\ UNCHANGED <<impl, store, jar, now, setting>>

\* Save, from the answer of the backend to the return: the error, or the
\* cookie, encoded with the codecs and the clock of now
LiteSaveReturn(s) ==
    /\ impl = "lite"
    /\ calls[s] # NoCall
    /\ calls[s].op = "Save"
    /\ LET call == calls[s]
           session == sessions[s]
       IN IF call.err # "nil"
          THEN /\ jar' = jar
               /\ last' = [call EXCEPT !.stage = "done"]
          ELSE IF call.cmds[1].cmd = "DEL"
          THEN /\ jar' = jar
               /\ last' = [call EXCEPT !.stage = "done",
                              !.resp = <<NewCookie(session.name, EmptyValue,
                                                   session.options)>>]
          ELSE LET enc == EncodeMulti(store.codecs, session.id, now)
               IN IF enc.err # "nil"
                  THEN /\ jar' = jar
                       /\ last' = [call EXCEPT !.stage = "done", !.err = enc.err]
                  ELSE /\ jar' = Keep(enc.value)
                       /\ last' = [call EXCEPT !.stage = "done",
                                      !.resp = <<NewCookie(session.name, enc.value,
                                                           session.options)>>]
    /\ calls' = [calls EXCEPT ![s] = NoCall]
    /\ UNCHANGED <<impl, store, kv, sessions, now, steps, removed, setting>>

\* SetKeyPrefix set the prefix
LiteSetKeyPrefix(keyPrefix) ==
    /\ impl = "lite"
    /\ Budget
    /\ store' = [store EXCEPT !.keyPrefix = keyPrefix]
    /\ last' = Obs("SetKeyPrefix", 0)
    /\ UNCHANGED <<impl, kv, sessions, jar, now, removed, calls, setting>>

\* SetMaxAge restricts the maximum age, in seconds, of the session record:
\* up to the first fmt.Printf, or to the return when every codec is a
\* *securecookie.SecureCookie
LiteSetMaxAge(maxAge) ==
    /\ impl = "lite"
    /\ Budget
    /\ LET n == Len(store.codecs)
           i == Printf(store.codecs, 1, n)
           obs == [Obs("SetMaxAge", 0) EXCEPT !.arg = maxAge, !.alone = (setting = EmptyBag)]
       IN /\ store' = [store EXCEPT !.options.maxAge = maxAge,
                                    !.codecs = AdjustCodecs(store.codecs, 1, n, maxAge)]
          /\ IF i = 0
             THEN /\ setting' = Overlapped(setting)
                  /\ last' = [obs EXCEPT !.alone = TRUE]
             ELSE /\ setting' = Overlapped(setting) (+)
                                    SetToBag({[age |-> maxAge, i |-> i, n |-> n,
                                               alone |-> obs.alone]})
                  /\ last' = [obs EXCEPT !.stage = "printf"]
    /\ UNCHANGED <<impl, kv, sessions, jar, now, removed, calls>>

\* SetMaxAge(age), from the return of a fmt.Printf to the next one or to the
\* return.  A waiting call c has its argument, the pass c.i of the loop it
\* waits in, the number c.n of passes (len(r.Codecs) when the loop began)
\* and whether it ran alone so far; it goes on with the passes c.i + 1 .. c.n,
\* each on r.Codecs[i] as the field is now (Codecs never gets shorter, so the
\* index is in range)
LiteSetMaxAgeResume(age) ==
    /\ impl = "lite"
    /\ Budget
    /\ \E c \in BagToSet(setting) :
          LET others == Overlapped(setting (-) SetToBag({c}))
              i == Printf(store.codecs, c.i + 1, c.n)
              obs == [Obs("SetMaxAge", 0) EXCEPT !.arg = c.age, !.alone = c.alone]
          IN /\ c.age = age
             /\ store' = [store EXCEPT
                              !.codecs = AdjustCodecs(store.codecs, c.i + 1, c.n, c.age)]
             /\ IF i = 0
                THEN /\ setting' = others
                     /\ last' = obs
                ELSE /\ setting' = others (+) SetToBag({[c EXCEPT !.i = i]})
                     /\ last' = [obs EXCEPT !.stage = "printf"]
    /\ UNCHANGED <<impl, kv, sessions, jar, now, removed, calls>>

-----------------------------------------------------------------------------
(* The callers and the environment *)

\* session.Values[k] = v
SetValue(s, k, v) ==
    /\ Budget
    /\ calls[s] = NoCall
    /\ sessions[s] # NoSession
    /\ sessions' = [sessions EXCEPT ![s].values = Merge(@, [x \in {k} |-> v])]
    /\ last' = Obs("caller", s)
    /\ UNCHANGED <<impl, store, kv, jar, now, removed, calls, setting>>

\* the assignment when every session points at the store's Options instead of
\* holding a copy: it lands in the store and in every session
SetSessionMaxAge_Shared(s, age) ==
    /\ Budget
    /\ calls[s] = NoCall
    /\ sessions[s] # NoSession
    /\ sessions' = [t \in Slots |->
                       IF sessions[t] = NoSession THEN NoSession
                       ELSE [sessions[t] EXCEPT !.options.maxAge = age]]
    /\ store' = [store EXCEPT !.options.maxAge = age]
    /\ last' = Obs("caller", s)
    /\ UNCHANGED <<impl, kv, jar, now, removed, calls, setting>>

\* session.Options.MaxAge = age
SetSessionMaxAge(s, age) ==
    /\ Budget
    /\ calls[s] = NoCall
    /\ sessions[s] # NoSession
    /\ sessions' = [sessions EXCEPT ![s].options.maxAge = age]
    /\ last' = Obs("caller", s)
    /\ UNCHANGED <<impl, store, kv, jar, now, removed, calls, setting>>

\* key rotation: the application puts a new key-pair in front of the store's
\* Codecs, r.Codecs = append(securecookie.CodecsFromPairs(k2), r.Codecs...);
\* new cookies are encoded with it, the older key-pairs stay for decoding
RotateKeys ==
    /\ impl # "none"
    /\ Budget
    /\ Len(store.codecs) > 0
    /\ \A i \in DOMAIN store.codecs : store.codecs[i].key # "K2"
    /\ store' = [store EXCEPT !.codecs = <<SecureCookie("K2")>> \o @]
    /\ setting' = Overlapped(setting)
    /\ last' = Obs("RotateKeys", 0)
    /\ UNCHANGED <<impl, kv, sessions, jar, now, removed, calls>>

\* a second passes; the backend drops the keys whose time to live is over
Tick ==
    /\ Budget
    /\ now < MaxTime
    /\ now' = now + 1
    /\ kv' = [k \in {x \in DOMAIN kv : kv[x].exp > now + 1} |-> kv[k]]
    /\ last' = Obs("tick", 0)
    /\ UNCHANGED <<impl, store, sessions, jar, removed, calls, setting>>

-----------------------------------------------------------------------------

\* The state after one of the two constructors ran against a backend that
\* answered its PING with reply.  A caller that gets an error from the
\* constructor has no store to work with: impl is "none".
Init ==
    /\ \E i \in {"valkeystore", "lite"}, codecs \in CodecLists, reply \in PingReplies :
          LET err == IF i = "valkeystore" THEN NewValkeyStoreWithClientErr(reply)
                     ELSE LiteNewWithClientErr(reply)
          IN /\ impl = IF err = "nil" THEN i ELSE "none"
             /\ store = IF i = "valkeystore" THEN NewValkeyStoreWithClient(codecs)
                        ELSE LiteNewWithClient(codecs)
             /\ last = [Obs(IF i = "valkeystore" THEN "NewValkeyStoreWithClient"
                            ELSE "NewWithClient", 0)
                           EXCEPT !.err = err, !.reply = reply,
                                  !.cmds = <<[cmd |-> "PING", key |-> "", ttl |-> 0]>>]
    /\ kv = [k \in {} |-> NoEntry]
    /\ sessions = [s \in Slots |-> NoSession]
    /\ jar = <<>>
    /\ now = 0
    /\ steps = 0
    /\ removed = {}
    /\ calls = [s \in Slots |-> NoCall]
    /\ setting = EmptyBag

Next ==
    \/ \E s \in Slots, c \in Cookies, up \in BOOLEAN : New(s, c, up)
    \/ \E s \in Slots, id \in IDs, up \in BOOLEAN : Save(s, id, up)
    \/ \E s \in Slots, up \in BOOLEAN : Delete(s, up)
    \/ \E s \in Slots : NewReturn(s)
    \/ \E s \in Slots : NewResume(s)
    \/ \E s \in Slots : SaveReturn(s)
    \/ \E s \in Slots : DeleteReturn(s)
    \/ \E n \in Lengths : SetMaxLength(n)
    \/ \E p \in Prefixes : SetKeyPrefix(p)
    \/ \E ser \in {"gob", "json"} : SetSerializer(ser)
    \/ \E age \in StoreAges : SetMaxAge(age)
    \/ \E age \in StoreAges : SetMaxAgeResume(age)
    \/ \E s \in Slots, c \in Cookies, up \in BOOLEAN : LiteNew(s, c, up)
    \/ \E s \in Slots, id \in IDs, up \in BOOLEAN : LiteSave(s, id, up)
    \/ \E s \in Slots : LiteNewReturn(s)
    \/ \E s \in Slots : LiteSaveReturn(s)
    \/ \E p \in Prefixes : LiteSetKeyPrefix(p)
    \/ \E age \in StoreAges : LiteSetMaxAge(age)
    \/ \E age \in StoreAges : LiteSetMaxAgeResume(age)
    \/ \E s \in Slots, kvp \in ValueInputs : SetValue(s, kvp[1], kvp[2])
    \/ \E s \in Slots, age \in SessionAges : SetSessionMaxAge(s, age)
    \/ RotateKeys
    \/ Tick

Spec == Init /\ [][Next]_vars

-----------------------------------------------------------------------------
(* Properties *)

\* the session the last operation acted on
Sess == sessions[last.slot]
\* the serializer in use: the one the store has, and for a call that comes
\* back from the fmt.Printf of JSONSerializer the one it called, whatever
\* the store's serializer was set to meanwhile
ActiveSerializer ==
    IF impl # "valkeystore" THEN "gob"
    ELSE IF last.printed /\ last.stage = "done" THEN "json" ELSE store.serializer
\* the configured maximum length of a payload
ActiveMaxLength == IF impl = "valkeystore" THEN store.maxLength ELSE LiteMaxLength
\* the backend key of the session the last Save or Delete was called with
PreKey == store.keyPrefix \o last.pre.id
\* a cookie that makes the client drop it at once
Expired(cookie) == cookie.maxAge < 0 /\ cookie.expires = "epoch"
\* the value json.Marshal and json.Unmarshal turn a value into
ViaJSON(v) == IF v.t = "string" THEN v ELSE [t |-> "float64", n |-> v.n]
\* the last step was the one in which the operation read the store's settings
\* and, if it sent a command, got the backend's answer: the settings, the
\* clock and the backend are those the operation worked with
AtCommand ==
    \/ last.stage = "sent"
    \/ last.cmds = <<>> /\ (last.printed => last.stage = "printf")
\* the last step was the return of the operation
Returned == last.stage = "done"
\* the entry the backend held under prefix+id of the cookie when New looked
Found == IF last.decoded THEN last.held ELSE Held(last.req.id)

\* New returned; it was called with a cookie that Save wrote, the backend
\* answered, and it held a payload under prefix+id that the serializer now in
\* use wrote
RoundTripCase ==
    /\ last.op = "New"
    /\ Returned
    /\ IsToken(last.req)
    /\ last.reply # "error"
    /\ Found # NoEntry
    /\ Found.fmt = ActiveSerializer

\* C1 as stated: a New on a request carrying the cookie that a successful
\* Save (maxAge > 0) wrote, with the same serializer and key prefix and the
\* key neither expired nor deleted, returns isNew == false, a nil error, the
\* same id and values equal to the values that were saved.
C1_RoundTripAsStated ==
    RoundTripCase =>
        /\ Sess.isNew = FALSE
        /\ last.err = "nil"
        /\ Sess.id = last.req.id
        /\ Sess.values = Found.vals

\* C1 amended: the same, provided the cookie still authenticates under the
\* store's key-pairs and their current max-age when New decodes it; the
\* values come back equal under the gob serializer, and under the JSON
\* serializer equal up to JSON's typing: every number comes back as a float64.
C1_RoundTrip ==
    /\ (last.op = "New" /\ AtCommand /\ last.req # NoCookie) =>
          (last.decoded <=> DecodeMulti(store.codecs, last.req, now).err = "nil")
    /\ (RoundTripCase /\ last.decoded) =>
          /\ Sess.isNew = FALSE
          /\ last.err = "nil"
          /\ Sess.id = last.req.id
          /\ Sess.values =
                IF ActiveSerializer = "gob" THEN last.held.vals
                ELSE [k \in DOMAIN last.held.vals |-> ViaJSON(last.held.vals[k])]

C1_Witness ==
    /\ RoundTripCase
    /\ last.decoded
    /\ Sess.values # EmptyValues
    /\ Sess.isNew = FALSE

\* C2: after a Save with maxAge <= 0 (negative or exactly 0) that returns nil
\* the key prefix+id is absent and the cookie written to the response has an
\* empty value and expires at once.
C2_DeleteOnSave ==
    (last.op = "Save" /\ Returned /\ last.pre.options.maxAge <= 0 /\ last.err = "nil") =>
        /\ last.cmds[1].key \notin DOMAIN kv
        /\ Len(last.resp) = 1
        /\ last.resp[1].value = EmptyValue
        /\ Expired(last.resp[1])

\* the Save of the last step took the persist branch and its payload
\* serialized to more bytes than the limit
TooLong ==
    /\ last.op = "Save"
    /\ AtCommand
    /\ last.pre.options.maxAge > 0
    /\ Serialize(ActiveSerializer, Sess.values).err = "nil"
    /\ Serialize(ActiveSerializer, Sess.values).b.len > ActiveMaxLength

\* C3: a payload longer than a non-zero maximum makes Save fail without any
\* backend command, the backend unchanged; with a maximum of 0 no payload is
\* refused for its size.
C3_TooBig ==
    /\ (TooLong /\ ActiveMaxLength # 0) =>
          /\ Returned
          /\ last.err = "toobig"
          /\ last.cmds = <<>>
          /\ last.kvSame
          /\ last.resp = <<>>
    /\ (last.op = "Save" /\ AtCommand /\ ActiveMaxLength = 0) => last.err # "toobig"
    /\ (last.op = "Save" /\ last.err = "toobig") => TooLong

C3_Witness ==
    /\ TooLong
    /\ ActiveMaxLength # 0
    /\ last.err = "toobig"

\* with no limit the long payload is written
C3_WitnessUnlimited ==
    /\ TooLong
    /\ ActiveMaxLength = 0
    /\ last.err = "nil"

\* C4: the TTL of every SETEX that Save issues is the maxAge of the options of
\* the session saved, whatever the store's default max-age is.
C4_TtlIsSessionMaxAge ==
    (last.op = "Save" /\ last.pre.options.maxAge > 0) =>
        \A i \in DOMAIN last.cmds :
            last.cmds[i].cmd = "SETEX" => last.cmds[i].ttl = last.pre.options.maxAge

\* C5: a Save of a session whose maxAge is exactly 0 persists it: the backend
\* receives a SETEX of prefix+id whose TTL is DefaultMaxAge.
C5_ZeroMaxAgePersists ==
    (impl = "valkeystore" /\ last.op = "Save" /\ last.pre.options.maxAge = 0) =>
        /\ Len(last.cmds) = 1
        /\ last.cmds[1].cmd = "SETEX"
        /\ last.cmds[1].ttl = store.defaultMaxAge

\* C6 as stated: after a Delete that returns nil the backend received exactly
\* one DEL of prefix+id and the key is absent, the response carries one cookie
\* of the session's name with an empty value and max-age -1, and the
\* session's values are empty.
C6_DeleteAsStated ==
    (last.op = "Delete" /\ Returned /\ last.err = "nil") =>
        /\ Len(last.cmds) = 1
        /\ last.cmds[1].cmd = "DEL"
        /\ last.cmds[1].key \notin DOMAIN kv
        /\ Len(last.resp) = 1
        /\ last.resp[1].name = last.pre.name
        /\ last.resp[1].value = EmptyValue
        /\ last.resp[1].maxAge = -1
        /\ Sess.values = EmptyValues

\* C6 amended: Delete sends exactly one DEL of prefix+id, and the key is
\* absent when the backend has answered it with success; when Delete then
\* returns nil the response carries one cookie of the session's name with an
\* empty value and max-age -1 and the session's values are empty.  The key
\* need not be absent any more at the return: the Save of another request
\* with the same id can have written it in between.
C6_Delete ==
    last.op = "Delete" =>
        /\ Len(last.cmds) = 1
        /\ last.cmds[1].cmd = "DEL"
        /\ AtCommand =>
              /\ last.cmds[1].key = PreKey
              /\ last.err = "nil" => PreKey \notin DOMAIN kv
        /\ (Returned /\ last.err = "nil") =>
              /\ Len(last.resp) = 1
              /\ last.resp[1].name = last.pre.name
              /\ last.resp[1].value = EmptyValue
              /\ last.resp[1].maxAge = -1
              /\ Sess.values = EmptyValues

C6_Witness ==
    /\ last.op = "Delete"
    /\ Returned
    /\ last.err = "nil"
    /\ last.held # NoEntry
    /\ last.pre.values # EmptyValues
    /\ last.pre.options.maxAge > 0

\* Delete returned nil for a session that New had found, and the key it
\* removed is held again: the request that holds the other session of that
\* id saved it in between
C6_WitnessWrittenAgain ==
    /\ last.op = "Delete"
    /\ Returned
    /\ last.err = "nil"
    /\ last.pre.isNew = FALSE
    /\ last.held # NoEntry
    /\ Sess.values = EmptyValues
    /\ last.cmds[1].key \in DOMAIN kv

\* C7: a Delete whose backend command fails returns the error and leaves the
\* session as it was (values, options, id) and writes no cookie.
C7_DeleteFails ==
    (last.op = "Delete" /\ last.err # "nil") =>
        /\ last.err = "backend"
        /\ Sess = last.pre
        /\ last.resp = <<>>

C7_Witness ==
    /\ last.op = "Delete"
    /\ Returned
    /\ last.err = "backend"
    /\ last.pre.values # EmptyValues

\* C8 as stated: the session New returns has isNew == false if and only if
\* the request carried a cookie that decoded to an id and the backend held
\* data under prefix+id when New read it.
C8_IsNewAsStated ==
    (last.op = "New" /\ Returned) =>
        (Sess.isNew = FALSE <=>
            (last.req # NoCookie /\ last.decoded /\ last.reply = "data"))

\* C8 amended: isNew is false if and only if the cookie decoded to an id, the
\* backend returned data for prefix+id and that data is a payload of the
\* serializer in use; data the serializer cannot read leaves isNew true.
C8_IsNew ==
    (last.op = "New" /\ Returned) =>
        (Sess.isNew = FALSE <=>
            /\ last.req # NoCookie
            /\ last.decoded
            /\ last.reply = "data"
            /\ last.held.fmt = ActiveSerializer)

C8_Witness ==
    /\ last.op = "New"
    /\ Returned
    /\ last.decoded
    /\ last.reply = "data"
    /\ last.held.fmt # ActiveSerializer
    /\ Sess.isNew

\* a session that was found
C8_WitnessFound ==
    /\ last.op = "New"
    /\ Returned
    /\ Sess.isNew = FALSE

\* New came back from the fmt.Printf of JSONSerializer, which could not read
\* the gob payload, after the store was set to the gob serializer again
C8_WitnessPrinted ==
    /\ last.op = "New"
    /\ Returned
    /\ last.printed
    /\ last.err = "deserialize"
    /\ last.held.fmt = store.serializer
    /\ Sess.isNew
    /\ Sess.values = EmptyValues

\* C9: when the cookie decodes to an id and the backend answers that it has
\* nothing under prefix+id, New returns a session with isNew == true, no
\* values and a nil error.
C9_NotFound ==
    (last.op = "New" /\ Returned /\ last.decoded /\ last.reply = "nil") =>
        /\ Sess # NoSession
        /\ Sess.isNew
        /\ Sess.values = EmptyValues
        /\ Sess.id = last.req.id
        /\ last.err = "nil"

C9_Witness ==
    /\ last.op = "New"
    /\ Returned
    /\ last.decoded
    /\ last.reply = "nil"
    /\ last.err = "nil"

\* C10 as stated: when every SetMaxAge has returned, the store's default
\* max-age and the max-age of every codec that can be adjusted are the
\* argument of the call that returned last.
C10_SetMaxAgeAsStated ==
    (last.op = "SetMaxAge" /\ Returned /\ setting = EmptyBag) =>
        /\ store.options.maxAge = last.arg
        /\ \A i \in DOMAIN store.codecs :
              store.codecs[i].adjustable => store.codecs[i].maxAge = last.arg

\* C10 amended: a SetMaxAge between whose steps no step of another SetMaxAge
\* and no assignment of Codecs came has set the store's default max-age to
\* its argument from its first step on, and when it returns the max-age of
\* every codec that can be adjusted is its argument; a codec that cannot be
\* adjusted keeps its own and does not stop the loop.
C10_SetMaxAge ==
    (last.op = "SetMaxAge" /\ last.alone) =>
        /\ store.options.maxAge = last.arg
        /\ Returned =>
              \A i \in DOMAIN store.codecs :
                  IF store.codecs[i].adjustable THEN store.codecs[i].maxAge = last.arg
                  ELSE store.codecs[i].maxAge = 0

C10_Witness ==
    /\ last.op = "SetMaxAge"
    /\ Returned
    /\ last.alone
    /\ last.arg = 1
    /\ \E i, j \in DOMAIN store.codecs :
          /\ i < j
          /\ ~store.codecs[i].adjustable
          /\ store.codecs[j].adjustable
          /\ store.codecs[j].maxAge = 1

\* the store other requests work with while SetMaxAge waits in fmt.Printf:
\* the default max-age is the argument, the codec behind the one that cannot
\* be adjusted has the max-age it had
C10_WitnessPrintf ==
    /\ last.op = "SetMaxAge"
    /\ last.stage = "printf"
    /\ last.alone
    /\ store.options.maxAge = -1
    /\ \E i \in DOMAIN store.codecs :
          store.codecs[i].adjustable /\ store.codecs[i].maxAge = 86400 * 30

\* two calls of SetMaxAge overtook one another: both have returned, and the
\* default max-age is the argument of one, the max-age of a codec that of
\* the other
C10_WitnessOvertaken ==
    /\ last.op = "SetMaxAge"
    /\ Returned
    /\ setting = EmptyBag
    /\ store.options.maxAge = 1
    /\ \E i \in DOMAIN store.codecs :
          store.codecs[i].adjustable /\ store.codecs[i].maxAge = 0

\* C11: a constructor sends one PING and returns an error whenever the
\* backend does not answer PONG: both when the command fails and when the
\* answer is another string.

\* Codecs was assigned while SetMaxAge waited in fmt.Printf: the loop went on
\* by index over the new list, met the codec it cannot adjust again and
\* returned without a pass at the codec behind it
C10_WitnessReassigned ==
    /\ last.op = "SetMaxAge"
    /\ Returned
    /\ ~last.alone
    /\ setting = EmptyBag
    /\ store.options.maxAge = last.arg
    /\ Len(store.codecs) = 3
    /\ ~store.codecs[2].adjustable
    /\ \A i \in {1, 3} : store.codecs[i].maxAge = sessionExpire

C11_PingFailsConstruction ==
    last.op \in {"NewValkeyStoreWithClient", "NewWithClient"} =>
        /\ last.cmds = <<[cmd |-> "PING", key |-> "", ttl |-> 0]>>
        /\ last.reply # "PONG" => last.err # "nil"

\* the backend has just done what the command of the last Save asked for
SaveCommandDone ==
    IF last.pre.options.maxAge <= 0
    THEN /\ last.cmds = <<[cmd |-> "DEL", key |-> PreKey, ttl |-> 0]>>
         /\ PreKey \notin DOMAIN kv
    ELSE /\ Len(last.cmds) = 1
         /\ last.cmds[1].cmd = "SETEX"
         /\ last.cmds[1].key = store.keyPrefix \o Sess.id
         /\ last.cmds[1].key \in DOMAIN kv
         /\ kv[last.cmds[1].key].vals = Sess.values

\* C12: a Save that returns an error (serialize, size, backend or encode) has
\* written no cookie to the response; a Save that wrote a cookie returned nil
\* after its backend command, the delete or the write with expiry, succeeded,
\* and in the persist branch the cookie carries the encoded id.
C12_CookieLast ==
    last.op = "Save" =>
        /\ last.err # "nil" => last.resp = <<>>
        /\ last.stage = "sent" =>
              /\ last.resp = <<>>
              /\ last.err = "nil" => SaveCommandDone
        /\ last.resp # <<>> =>
              /\ Returned
              /\ last.err = "nil"
              /\ Len(last.resp) = 1
              /\ Len(last.cmds) = 1
              /\ last.pre.options.maxAge > 0 =>
                    /\ IsToken(last.resp[1].value)
                    /\ last.resp[1].value.id = Sess.id

\* the backend took the write and the encoding of the id failed
C12_Witness ==
    /\ last.op = "Save"
    /\ Returned
    /\ last.err = "encode"
    /\ ~last.kvSame
    /\ last.resp = <<>>

\* C13: SetMaxLength with a negative argument leaves the store as it was, the
\* maximum length included; with an argument >= 0 the maximum length becomes
\* the argument and no other setting changes.
C13_SetMaxLength ==
    [][last'.op = "SetMaxLength" =>
          IF last'.arg < 0 THEN store' = store
          ELSE store' = [store EXCEPT !.maxLength = last'.arg]]_vars

\* a negative argument after the maximum was set to 5
C13_Witness ==
    /\ last.op = "SetMaxLength"
    /\ last.arg < 0
    /\ store.maxLength = 5

\* C14: New makes the session's options a copy of the store's default options
\* of the moment it starts, and returns the session with that copy whatever
\* the store's defaults have become; a caller's change to one session changes
\* neither the store nor another session, and a SetMaxAge on the store
\* changes no session that exists.
C14_OwnOptions ==
    [][/\ last'.op = "New" =>
             /\ store' = store
             /\ \A t \in Slots \ {last'.slot} : sessions'[t] = sessions[t]
             /\ last'.stage = "sent" =>
                   (last'.pre.options = store.options /\ sessions' = sessions)
             /\ last'.stage = "printf" => sessions' = sessions
             /\ last'.stage = "done" =>
                   sessions'[last'.slot].options =
                       IF calls[last'.slot] = NoCall THEN store.options
                       ELSE calls[last'.slot].pre.options
       /\ last'.op = "caller" =>
             /\ store' = store
             /\ \A t \in Slots \ {last'.slot} : sessions'[t] = sessions[t]
       /\ last'.op = "SetMaxAge" => (sessions' = sessions /\ calls' = calls)]_vars

\* two sessions and the store, each with a max-age of its own
C14_Witness ==
    /\ last.op = "SetMaxAge"
    /\ store.options.maxAge = 1
    /\ sessions[1] # NoSession
    /\ sessions[2] # NoSession
    /\ sessions[1].options.maxAge = -1
    /\ sessions[2].options.maxAge = sessionExpire

\* a New that returned a session with the defaults it had copied, after a
\* SetMaxAge had changed the defaults of the store
C14_WitnessInFlight ==
    /\ last.op = "New"
    /\ Returned
    /\ last.decoded
    /\ Sess.options.maxAge = sessionExpire
    /\ store.options.maxAge = 1

\* New has just decoded a cookie issued under a key-pair that the store, now
\* configured with several key-pairs, still holds
RotationCase ==
    /\ last.op = "New"
    /\ AtCommand
    /\ IsToken(last.req)
    /\ Len(store.codecs) > 1
    /\ \E i \in DOMAIN store.codecs : store.codecs[i].key = last.req.key

\* C15 as stated: with several key-pairs configured, a cookie that Save issued
\* under one of them is decoded by New to the same id as long as that
\* key-pair is among the store's key-pairs, whatever its position.
C15_RotationAsStated ==
    RotationCase => (last.decoded /\ last.pre.id = last.req.id)

\* C15 amended: the same, as long as the cookie is also no older than the
\* max-age that key-pair now has (SetMaxAge sets it on every key-pair); a
\* cookie older than that is refused although its key-pair is still active.
\* The id New decoded is the id of the session it returns.
C15_Rotation ==
    /\ RotationCase =>
          /\ last.decoded <=>
                \E i \in DOMAIN store.codecs : Decodes(store.codecs[i], last.req, now)
          /\ last.decoded => last.pre.id = last.req.id
    /\ (last.op = "New" /\ Returned /\ last.decoded) => Sess.id = last.req.id

\* a cookie of the key-pair that is no longer the first one
C15_Witness ==
    /\ RotationCase
    /\ store.codecs[1].key = "K2"
    /\ last.req.key # "K2"
    /\ last.decoded
    /\ last.pre.id = last.req.id
    /\ last.reply = "data"

\* C16: when the request carries a cookie that no key-pair decodes (tampered,
\* wrong key, stale), New returns the decode error and a session with
\* isNew == true, an empty id, no values and the store's default options,
\* and sends no command to the backend.
C16_DecodeFails ==
    (/\ last.op = "New"
     /\ AtCommand
     /\ last.req # NoCookie
     /\ \A i \in DOMAIN store.codecs : ~Decodes(store.codecs[i], last.req, now)) =>
        /\ Returned
        /\ last.err = "decode"
        /\ Sess # NoSession
        /\ Sess.isNew
        /\ Sess.id = ""
        /\ Sess.values = EmptyValues
        /\ Sess.options = store.options
        /\ last.cmds = <<>>

\* a stale cookie of a session that the backend still holds
C16_Witness ==
    /\ last.op = "New"
    /\ IsToken(last.req)
    /\ last.err = "decode"
    /\ Held(last.req.id) # NoEntry

\* a cookie that was tampered with
C16_WitnessTampered ==
    /\ last.op = "New"
    /\ last.req = Garbage
    /\ last.err = "decode"

\* the last step was that of a Save, in the persist branch, of the store of
\* src/valkeystore.go in which save read the serializer, and it was JSON
JsonSave ==
    /\ impl = "valkeystore"
    /\ last.op = "Save"
    /\ AtCommand
    /\ store.serializer = "json"
    /\ last.pre.options.maxAge > 0

\* C17: with the JSON serializer active, a Save of a session whose values
\* hold a key that is no string fails in the serializer, sends no command to
\* the backend and leaves it unchanged; when the serializer has printed its
\* error, the Save returns that error and has written no cookie; with string
\* keys only, Save does not fail in the serializer.
C17_NonStringKey ==
    /\ JsonSave =>
          IF \E k \in DOMAIN last.pre.values : k.t # "string"
          THEN /\ last.stage = "printf"
               /\ last.err = "serialize"
               /\ last.cmds = <<>>
               /\ last.kvSame
               /\ last.resp = <<>>
          ELSE last.err # "serialize"
    /\ (last.op = "Save" /\ last.printed /\ Returned) =>
          /\ \E k \in DOMAIN last.pre.values : k.t # "string"
          /\ last.err = "serialize"
          /\ last.cmds = <<>>
          /\ last.kvSame
          /\ last.resp = <<>>

\* the Save has returned the serializer's error
C17_Witness ==
    /\ impl = "valkeystore"
    /\ last.op = "Save"
    /\ Returned
    /\ last.printed
    /\ \E k \in DOMAIN last.pre.values : k.t # "string"
    /\ last.err = "serialize"
    /\ last.resp = <<>>

\* the Save waits while the serializer prints its error; the session has its
\* new id already
C17_WitnessPrintf ==
    /\ JsonSave
    /\ last.stage = "printf"
    /\ last.pre.id = ""
    /\ Sess.id # ""

\* string keys only: the payload is written
C17_WitnessStringKeys ==
    /\ JsonSave
    /\ last.pre.values # EmptyValues
    /\ last.err = "nil"
    /\ Held(Sess.id) # NoEntry
    /\ Held(Sess.id).fmt = "json"

\* C18: every SETEX that Save sends has the key (key prefix of that moment) +
\* (id of the session) with a non-empty id, which is the id the session had
\* before the Save unless that was empty; the backend never holds a key that
\* is a bare prefix.
C18_KeyHasId ==
    /\ last.op = "Save" =>
          \A i \in DOMAIN last.cmds :
              last.cmds[i].cmd = "SETEX" =>
                  /\ Sess.id # ""
                  /\ \E p \in AllPrefixes : last.cmds[i].key = p \o Sess.id
                  /\ AtCommand => last.cmds[i].key = store.keyPrefix \o Sess.id
                  /\ last.pre.id # "" => Sess.id = last.pre.id
    /\ \A k \in DOMAIN kv : k \notin AllPrefixes

\* the first Save of a session, which had no id
C18_Witness ==
    /\ last.op = "Save"
    /\ AtCommand
    /\ last.pre.id = ""
    /\ last.err = "nil"
    /\ Len(last.cmds) = 1
    /\ last.cmds[1].cmd = "SETEX"
    /\ last.cmds[1].key \in DOMAIN kv

\* C19: a Save or a Delete, successful or not, leaves a non-empty id, isNew
\* and the options of the session as they were, and no other session is
\* touched; a Save leaves the values as they were too, in both its branches,
\* and every command of a Save of a session that had an id names the key of
\* that id under the store's key prefix.
C19_SessionFrame ==
    last.op \in {"Save", "Delete"} =>
        /\ last.pre.id # "" => Sess.id = last.pre.id
        /\ Sess.isNew = last.pre.isNew
        /\ Sess.options = last.pre.options
        /\ Sess.name = last.pre.name
        /\ last.op = "Save" => Sess.values = last.pre.values
        /\ (last.op = "Save" /\ last.pre.id # "") =>
              \A i \in DOMAIN last.cmds :
                  /\ \E p \in AllPrefixes : last.cmds[i].key = p \o last.pre.id
                  /\ AtCommand => last.cmds[i].key = store.keyPrefix \o last.pre.id

\* a second Save of a session, which New had not found
C19_Witness ==
    /\ last.op = "Save"
    /\ Returned
    /\ last.pre.id # ""
    /\ last.pre.isNew
    /\ last.pre.values # EmptyValues
    /\ last.held # NoEntry
    /\ last.err = "nil"

\* a successful Delete of a session with values
C19_WitnessDelete ==
    /\ last.op = "Delete"
    /\ Returned
    /\ last.err = "nil"
    /\ last.pre.id # ""
    /\ last.pre.options.maxAge > 0
    /\ Sess.options.maxAge > 0

\* C20: whatever SetMaxAge and the callers have set, every write that a Save
\* sends to the backend is a SETEX whose TTL is a strictly positive number
\* of seconds.
C20_PositiveTtl ==
    last.op = "Save" =>
        \A i \in DOMAIN last.cmds :
            last.cmds[i].cmd # "DEL" =>
                (last.cmds[i].cmd = "SETEX" /\ last.cmds[i].ttl > 0)

\* New returned; when it was called, with a cookie issued for an id, a
\* successful Delete or Save with maxAge <= 0 had removed the payload of that
\* id under the store's key prefix and no Save had written that key since
ReplayAfterRemoval ==
    /\ last.op = "New"
    /\ Returned
    /\ IsToken(last.req)
    /\ last.gone

\* C21: once a successful Delete, or a successful Save with maxAge <= 0, has
\* removed the payload of a saved session, the backend does not hold its key
\* until a Save writes it again, and a New that then replays a cookie issued
\* for that id returns isNew == true and none of the saved values.
C21_RemovalIsFinal ==
    /\ \A k \in removed : k \notin DOMAIN kv
    /\ (last.op = "New" /\ last.gone /\ last.decoded) => last.reply \in {"nil", "error"}
    /\ ReplayAfterRemoval =>
          /\ Sess.isNew
          /\ Sess.values = EmptyValues

\* the cookie still decodes, the session was removed by Delete
C21_Witness ==
    /\ ReplayAfterRemoval
    /\ last.decoded
    /\ last.reply = "nil"
    /\ Sess.id = last.req.id
    /\ \E t \in Slots \ {last.slot} :
          /\ sessions[t] # NoSession
          /\ sessions[t].id = last.req.id
          /\ sessions[t].options.maxAge > 0

\* the session was removed by a Save with maxAge <= 0, in the store that has
\* no Delete
C21_WitnessSave ==
    /\ impl = "lite"
    /\ ReplayAfterRemoval
    /\ last.decoded
    /\ \E t \in Slots \ {last.slot} :
          /\ sessions[t] # NoSession
          /\ sessions[t].id = last.req.id
          /\ sessions[t].options.maxAge < 0

====
